---------------------------- MODULE Spec2Model ----------------------------
(***************************************************************************)
(* Model of src/main.py: the cycletime percentile aggregation, the daily   *)
(* throughput series, the Monte Carlo forecast and the HTTP handler that   *)
(* composes them.                                                          *)
(*                                                                         *)
(* A DataFrame is a record [kind, index, columns, data]: index is the      *)
(* sequence of row labels, columns the sequence of column labels and data  *)
(* the sequence of rows, each a sequence of cell values.  Python's None is *)
(* the frame of kind "None".  Fractions (quantiles, probabilities) are     *)
(* float64 values with their rounding; dates are day-of-year ordinals and  *)
(* the "%Y-%m-%d" strings are <<year, month, day>> triples.                *)
(***************************************************************************)
EXTENDS Integers, Sequences, FiniteSets, TLC

VARIABLES
    kanban_data,   \* the issue table: [columns, rows]
    cfg,           \* the json body of the request
    request,       \* the Authorization header of the request
    today,         \* date.today(), a day ordinal
    args,          \* the arguments of the last direct call
    ct,            \* result of calc_cycletime_percentile
    tp,            \* result of calc_throughput
    samples,       \* run_simulation: the simulated totals
    distribution,  \* run_simulation: the empirical distribution
    mc,            \* result of run_simulation
    response,      \* what main returned or raised
    last           \* the operation that acted last

vars == <<kanban_data, cfg, request, today, args, ct, tp, samples,
          distribution, mc, response, last>>

---------------------------------------------------------------------------
(* Bounds of the model *)

MaxRows == 3
MaxCyclePercentiles == 2
MaxSimulations == 4
MaxMontecarloPercentiles == 2

---------------------------------------------------------------------------
(* Values *)

NoneValue == [kind |-> "None", index |-> <<>>, columns |-> <<>>, data |-> <<>>]

Unset == [kind |-> "unset", index |-> <<>>, columns |-> <<>>, data |-> <<>>]

NoDate == <<>>

Range(s) == {s[i] : i \in 1..Len(s)}

RECURSIVE SeqsUpTo(_, _)
SeqsUpTo(S, n) ==
    IF n = 0 THEN {<<>>}
    ELSE LET shorter == SeqsUpTo(S, n - 1)
         IN  shorter \cup {Append(s, x) : s \in {t \in shorter : Len(t) = n - 1}, x \in S}

RECURSIVE SumSeq(_)
SumSeq(s) == IF s = <<>> THEN 0 ELSE s[1] + SumSeq(Tail(s))

IndexOf(s, x) == CHOOSE i \in 1..Len(s) : s[i] = x /\ \A j \in 1..(i - 1) : s[j] # x

\* DataFrame column selection, frame[name]
Column(frame, name) ==
    LET j == IndexOf(frame.columns, name)
    IN  [i \in 1..Len(frame.data) |-> frame.data[i][j]]

\* the lexicographic order of the project keys
ProjectOrder == <<"JP", "KB">>

---------------------------------------------------------------------------
(* calc_cycletime_percentile *)

Sorted(values) == SortSeq(values, LAMBDA a, b : a < b)

(* IEEE 754 doubles.  The quantile is computed in float64, so a non-negative  *)
(* double is kept exactly, as the fixed-point number                         *)
(* int + frac[1]/Limb + frac[2]/Limb^2 + frac[3]/Limb^3 + frac[4]/Limb^4,    *)
(* and every operation rounds its exact result to 53 significant bits, ties  *)
(* to even.  The 60 fraction bits hold every double the quantile of values   *)
(* below 128 and percentiles from 1 to 100 can meet.                         *)

Limb == 2^15

RECURSIVE BitLen(_)
BitLen(n) == IF n = 0 THEN 0 ELSE 1 + BitLen(n \div 2)

FromInt(n) == [int |-> n, frac |-> <<0, 0, 0, 0>>]

\* the fixed-point number of an integer part and four limbs that may exceed Limb
Carry(int, limbs) ==
    LET t4 == limbs[4]
        t3 == limbs[3] + t4 \div Limb
        t2 == limbs[2] + t3 \div Limb
        t1 == limbs[1] + t2 \div Limb
    IN  [int  |-> int + t1 \div Limb,
         frac |-> <<t1 % Limb, t2 % Limb, t3 % Limb, t4 % Limb>>]

\* the exact number rounded to the nearest double, ties to even; sticky says
\* that the exact number lies above x by less than the last fraction bit
Round53(x, sticky) ==
    LET top  == x.int * Limb + x.frac[1]
        drop == IF BitLen(top) > 8 THEN BitLen(top) - 8 ELSE 0
        unit == 2^drop
        low  == x.frac[4] % unit
        kept == x.frac[4] - low
        up   == /\ drop > 0
                /\ \/ 2 * low > unit
                   \/ 2 * low = unit /\ (sticky \/ (kept \div unit) % 2 = 1)
    IN  Carry(x.int, <<x.frac[1], x.frac[2], x.frac[3],
                       kept + (IF up THEN unit ELSE 0)>>)

\* float(a) / float(b)
Divide(a, b) ==
    LET r0 == a % b
        r1 == (r0 * Limb) % b
        r2 == (r1 * Limb) % b
        r3 == (r2 * Limb) % b
        r4 == (r3 * Limb) % b
    IN  Round53([int  |-> a \div b,
                 frac |-> <<(r0 * Limb) \div b, (r1 * Limb) \div b,
                            (r2 * Limb) \div b, (r3 * Limb) \div b>>],
                r4 # 0)

\* x * float(n)
Times(x, n) ==
    Round53(Carry(x.int * n, [k \in 1..4 |-> x.frac[k] * n]), FALSE)

\* float(n) + x
Plus(n, x) == Round53([int |-> n + x.int, frac |-> x.frac], FALSE)

\* abs(x - float(n))
AbsMinus(x, n) ==
    IF x.int >= n
    THEN Round53([int |-> x.int - n, frac |-> x.frac], FALSE)
    ELSE Round53(Carry(n - x.int - 1,
                       <<Limb - 1 - x.frac[1], Limb - 1 - x.frac[2],
                         Limb - 1 - x.frac[3], Limb - x.frac[4]>>), FALSE)

\* x < y
Less(x, y) ==
    LET a == <<x.int>> \o x.frac
        b == <<y.int>> \o y.frac
    IN  \E k \in 1..5 : a[k] < b[k] /\ \A j \in 1..(k - 1) : a[j] = b[j]

\* SeriesGroupBy.quantile(q) with q = percentile / 100, linear interpolation:
\* the value at the truncated position q * (n - 1), moved towards the next
\* value by the fraction of the position
Quantile(values, percentile) ==
    LET s        == Sorted(values)
        q_val    == Divide(percentile, 100)
        q_idx    == Times(q_val, Len(s) - 1)
        idx      == q_idx.int
        frac     == [int |-> 0, frac |-> q_idx.frac]
        val      == s[idx + 1]
    IN  IF frac = FromInt(0)
        THEN FromInt(val)
        ELSE Plus(val, Times(frac, s[idx + 2] - val))

\* np.ceil followed by astype("int")
NpCeil(x) == IF x.frac = <<0, 0, 0, 0>> THEN x.int ELSE x.int + 1

CycletimeLabel(percentile) == "cycletime " \o ToString(percentile) \o "%"

\* groupby("project"): the group keys in sorted order
GroupKeys(rows) ==
    SelectSeq(ProjectOrder, LAMBDA k : \E i \in 1..Len(rows) : rows[i].project = k)

GroupCycletimes(rows, key) ==
    LET members == SelectSeq(rows, LAMBDA r : r.project = key)
    IN  [i \in 1..Len(members) |-> members[i].cycletime]

\* one pass of the loop: the ceiled quantile of every project, as a one-column frame
TempCycletime(rows, percentile) ==
    LET keys == GroupKeys(rows)
    IN  [kind    |-> "frame",
         index   |-> keys,
         columns |-> <<CycletimeLabel(percentile)>>,
         data    |-> [i \in 1..Len(keys) |->
                        <<NpCeil(Quantile(GroupCycletimes(rows, keys[i]), percentile))>>]]

\* merge(left, right, left_index=True, right_index=True): inner join on the row labels
MergeOnIndex(left, right) ==
    LET keep == SelectSeq(left.index, LAMBDA k : k \in Range(right.index))
    IN  [kind    |-> "frame",
         index   |-> keep,
         columns |-> left.columns \o right.columns,
         data    |-> [i \in 1..Len(keep) |->
                        left.data[IndexOf(left.index, keep[i])]
                        \o right.data[IndexOf(right.index, keep[i])]]]

RECURSIVE CycletimeLoop(_, _, _)
CycletimeLoop(cycletime, rows, percentiles) ==
    IF percentiles = <<>> THEN cycletime
    ELSE LET temp_cycletime == TempCycletime(rows, Head(percentiles))
         IN  CycletimeLoop(IF cycletime.kind = "None" THEN temp_cycletime
                           ELSE MergeOnIndex(cycletime, temp_cycletime),
                           rows, Tail(percentiles))

calc_cycletime_percentile(config, data) ==
    IF data.rows # <<>>
    THEN CycletimeLoop(NoneValue, data.rows, config.Cycletime.Percentiles)
    ELSE NoneValue

---------------------------------------------------------------------------
(* Dates: date.today(), timedelta, strftime("%Y-%m-%d") and pandas' parsing *)

MonthDays == <<31, 28, 31, 30, 31, 30, 31, 31, 30, 31, 30, 31>>

DaysBefore(month) == SumSeq(SubSeq(MonthDays, 1, month - 1))

\* date.strftime("%Y-%m-%d") of a day ordinal, as <<year, month, day>>
Strftime(day) ==
    LET month == CHOOSE m \in 1..12 :
                    DaysBefore(m) < day /\ day <= DaysBefore(m) + MonthDays[m]
    IN  <<2023, month, day - DaysBefore(month)>>

\* the Timestamp pandas parses a "%Y-%m-%d" string to when it compares or ranges
ToDatetime(string) == DaysBefore(string[2]) + string[3]

\* a range that stops the day before end
DateRangeOpen(start, end) ==
    LET first == ToDatetime(start)
        days  == ToDatetime(end) - first
    IN  [i \in 1..(IF days > 0 THEN days ELSE 0) |-> first + i - 1]

\* pd.date_range(start, end): every calendar day from start to end
DateRange(start, end) ==
    LET first == ToDatetime(start)
        days  == ToDatetime(end) - first + 1
    IN  [i \in 1..(IF days > 0 THEN days ELSE 0) |-> first + i - 1]

---------------------------------------------------------------------------
(* calc_throughput *)

RECURSIVE SortedSeqOf(_)
SortedSeqOf(S) ==
    IF S = {} THEN <<>>
    ELSE LET least == CHOOSE x \in S : \A y \in S : x <= y
         IN  <<least>> \o SortedSeqOf(S \ {least})

CountOf(rows, day) == Cardinality({i \in 1..Len(rows) : rows[i].date = day})

\* pd.crosstab(date, columns=["issues"]).reset_index(): one row per distinct date
Crosstab(rows) ==
    LET days == SortedSeqOf({rows[i].date : i \in 1..Len(rows)})
    IN  [kind    |-> "frame",
         index   |-> [i \in 1..Len(days) |-> i - 1],
         columns |-> <<"date", "issues">>,
         data    |-> [i \in 1..Len(days) |-> <<days[i], CountOf(rows, days[i])>>]]

\* set_index("date").reindex(date_range, fill_value=0).rename_axis("Date")
Reindex(throughput, date_range) ==
    LET days == Column(throughput, "date")
        issues == Column(throughput, "issues")
    IN  [kind    |-> "frame",
         index   |-> date_range,
         columns |-> <<"issues">>,
         data    |-> [i \in 1..Len(date_range) |->
                        IF date_range[i] \in Range(days)
                        THEN <<issues[IndexOf(days, date_range[i])]>>
                        ELSE <<0>>]]

FilterFrom(rows, start_date) ==
    IF start_date # NoDate
    THEN SelectSeq(rows, LAMBDA r : r.date >= ToDatetime(start_date))
    ELSE rows

\* a filter that leaves out the records of end_date itself
FilterBefore(rows, end_date) ==
    IF end_date # NoDate
    THEN SelectSeq(rows, LAMBDA r : r.date < ToDatetime(end_date))
    ELSE rows

FilterUntil(rows, end_date) ==
    IF end_date # NoDate
    THEN SelectSeq(rows, LAMBDA r : r.date <= ToDatetime(end_date))
    ELSE rows

\* the same without the check that the filtered table has rows
ThroughputOfAnyTable(data, start_date, end_date) ==
    IF "date" \in Range(data.columns)
    THEN LET rows == FilterUntil(FilterFrom(data.rows, start_date), end_date)
             throughput == Crosstab(rows)
         IN  IF start_date # NoDate /\ end_date # NoDate
             THEN Reindex(throughput, DateRange(start_date, end_date))
             ELSE throughput
    ELSE NoneValue

calc_throughput(data, start_date, end_date) ==
    IF "date" \in Range(data.columns)
    THEN LET rows == FilterUntil(FilterFrom(data.rows, start_date), end_date)
         IN  IF rows # <<>>
             THEN LET throughput == Crosstab(rows)
                  IN  IF throughput.data # <<>> /\ start_date # NoDate /\ end_date # NoDate
                      THEN Reindex(throughput, DateRange(start_date, end_date))
                      ELSE throughput
             ELSE NoneValue
    ELSE NoneValue

---------------------------------------------------------------------------
(* run_simulation *)

Raised == [kind |-> "raised", index |-> <<>>, columns |-> <<>>, data |-> <<>>]

\* the totals one run can give: the sum of simul_days draws, with replacement,
\* from the "issues" column
RECURSIVE SampleTotals(_, _)
SampleTotals(dataset, simul_days) ==
    IF simul_days = 0 THEN {0}
    ELSE {x + rest : x \in Range(dataset), rest \in SampleTotals(dataset, simul_days - 1)}

\* what the simul runs can give: one total per run (none when nothing is sampled)
Outcomes(config, throughput) ==
    IF throughput.kind = "None" THEN {<<>>}
    ELSE [1..config.Montecarlo.Simulations ->
            SampleTotals(Column(throughput, "issues"), config.Montecarlo.Simulation_days)]

\* samples.groupby(["Items"]).size().reset_index(name="Frequency")
GroupBySize(totals) ==
    LET items == SortedSeqOf(Range(totals))
    IN  [i \in 1..Len(items) |->
            [index     |-> i - 1,
             Items     |-> items[i],
             Frequency |-> Cardinality({k \in 1..Len(totals) : totals[k] = items[i]})]]

\* the rows left in increasing label order
SortIndexAscending(frame) ==
    SortSeq(frame, LAMBDA a, b : a.index < b.index)

\* sort_index(ascending=False): rows by decreasing label
SortIndexDescending(frame) ==
    SortSeq(frame, LAMBDA a, b : a.index > b.index)

\* the frequency of row i alone
OwnFrequency(frame, i) == frame[i].Frequency

\* Frequency.cumsum() up to row i, in row order
Cumsum(frame, i) == SumSeq([k \in 1..i |-> frame[k].Frequency])

\* Probability = (100 * Frequency.cumsum()) / Frequency.sum()
WithProbability(frame) ==
    [i \in 1..Len(frame) |->
        [index       |-> frame[i].index,
         Items       |-> frame[i].Items,
         Frequency   |-> frame[i].Frequency,
         Probability |-> Divide(100 * Cumsum(frame, i), Cumsum(frame, Len(frame)))]]

Distribution(totals) == WithProbability(SortIndexDescending(GroupBySize(totals)))

\* Probability.sub(percentil).abs()
Distance(probability, percentil) == AbsMinus(probability, percentil)

\* the label of the last row whose distance is the least
IdxminLast(frame, percentil) ==
    LET d(i) == Distance(frame[i].Probability, percentil)
        row  == CHOOSE i \in 1..Len(frame) :
                    /\ \A j \in 1..Len(frame) : ~Less(d(j), d(i))
                    /\ \A j \in (i + 1)..Len(frame) : Less(d(i), d(j))
    IN  frame[row].index

\* distribution["Probability"].sub(percentil).abs().idxmin(): the label of the
\* first row, in row order, whose distance is the least
Idxmin(frame, percentil) ==
    LET d(i) == Distance(frame[i].Probability, percentil)
        row  == CHOOSE i \in 1..Len(frame) :
                    /\ \A j \in 1..Len(frame) : ~Less(d(j), d(i))
                    /\ \A j \in 1..(i - 1) : Less(d(i), d(j))
    IN  frame[row].index

\* distribution.loc[label, "Items"]
Loc(frame, label) ==
    frame[CHOOSE i \in 1..Len(frame) : frame[i].index = label].Items

MontecarloLabel(percentil) == "montecarlo " \o ToString(percentil) \o "%"

\* a list of pairs, which keeps every entry
ListAppend(dict, key, value) == Append(dict, [key |-> key, value |-> value])

\* mc_results[key] = value: a dict keeps one entry per key, at its first position
DictSet(dict, key, value) ==
    IF \E i \in 1..Len(dict) : dict[i].key = key
    THEN [i \in 1..Len(dict) |->
            IF dict[i].key = key THEN [key |-> key, value |-> value] ELSE dict[i]]
    ELSE Append(dict, [key |-> key, value |-> value])

RECURSIVE NearestNeighbor(_, _, _)
NearestNeighbor(mc_results, frame, percentiles) ==
    IF percentiles = <<>> THEN mc_results
    ELSE NearestNeighbor(
            DictSet(mc_results, MontecarloLabel(Head(percentiles)),
                    Loc(frame, Idxmin(frame, Head(percentiles)))),
            frame, Tail(percentiles))

\* DataFrame.from_dict(mc_results, orient="index", columns=["issues"]).transpose()
FromDict(mc_results) ==
    [kind    |-> "frame",
     index   |-> <<"issues">>,
     columns |-> [i \in 1..Len(mc_results) |-> mc_results[i].key],
     data    |-> <<[i \in 1..Len(mc_results) |-> mc_results[i].value]>>]

\* run_simulation(cfg, throughput) with simul and simul_days left to the config;
\* totals are the sums the simul runs drew.  With no percentile requested the
\* loop never binds mc and the return raises UnboundLocalError.
run_simulation(config, throughput, totals) ==
    IF throughput.kind # "None"
    THEN IF config.Montecarlo.Percentiles = <<>>
         THEN Raised
         ELSE FromDict(NearestNeighbor(<<>>, Distribution(totals),
                                       config.Montecarlo.Percentiles))
    ELSE NoneValue

---------------------------------------------------------------------------
(* main *)

AUTH_BEARER_TOKEN == "secret"

\* request.headers.get('Authorization').replace('Bearer ', '')
StripBearer(header) ==
    CASE header = "Bearer secret" -> "secret"
      [] header = "Bearer wrong"  -> "wrong"
      [] OTHER                    -> header

check_authorization(req) ==
    /\ req.Authorization # ""
    /\ AUTH_BEARER_TOKEN # ""
    /\ AUTH_BEARER_TOKEN = StripBearer(req.Authorization)

\* the schema's bounds on the two percentile arrays (the types hold by construction)
test_config(config) ==
    /\ Len(config.Cycletime.Percentiles) \in 1..5
    /\ Len(config.Montecarlo.Percentiles) \in 1..5

\* the frame with its labels left as they were
KeepLabels(frame, old, new) == frame

\* mc.rename(index={old: new})
Rename(frame, old, new) ==
    [frame EXCEPT !.index = [i \in 1..Len(frame.index) |->
                                IF frame.index[i] = old THEN new ELSE frame.index[i]]]

NoResponse == [status |-> "none", body |-> Unset]

\* the locals and the outcome of one request, totals being what the simulation drew
MainRun(req, config, data, day, totals) ==
    LET untouched == [ct |-> Unset, tp |-> Unset, mc |-> Unset]
    IN  IF ~check_authorization(req)
        THEN untouched @@ [response |-> [status |-> "abort 401", body |-> Unset]]
        ELSE IF ~test_config(config)
        THEN untouched @@ [response |-> [status |-> "config_error", body |-> Unset]]
        ELSE
            LET ct_  == calc_cycletime_percentile(config, data)
                now  == Strftime(day)
                past == Strftime(day - config.Throughput_range)
                tp_  == calc_throughput(data, past, now)
                mc_  == run_simulation(config, tp_, totals)
                done == [ct |-> ct_, tp |-> tp_, mc |-> mc_]
            IN  IF mc_.kind # "frame"
                THEN \* mc.rename on None: AttributeError
                     done @@ [response |-> [status |-> "raised", body |-> Unset]]
                ELSE LET renamed == Rename(mc_, "issues", data.rows[1].project)
                         result  == MergeOnIndex(ct_, renamed)
                     IN  [ct |-> ct_, tp |-> tp_, mc |-> renamed,
                          response |-> [status |-> "returned", body |-> result]]

---------------------------------------------------------------------------
(* The inputs *)

FullColumns == <<"project", "date", "issue", "cycletime">>

TablesOf(projects, days, cycletimes, n) ==
    {[columns |-> FullColumns, rows |-> rows] :
        rows \in SeqsUpTo([project : projects, date : days,
                           issue : {"KEY-1"}, cycletime : cycletimes], n)}

\* the table of test_calc_cycletime_percentile_single_project
TestTable ==
    [columns |-> <<"project", "cycletime">>,
     rows    |-> [i \in 1..14 |->
                    [project   |-> "JP",
                     cycletime |-> <<5, 7, 10, 12, 40, 23, 2, 21, 5, 66, 22, 15, 27, 38>>[i]]]]

Injective(s) == \A i, j \in 1..Len(s) : s[i] = s[j] => i = j

ConfigOf(cycle, range, simul, simul_days, monte) ==
    [Cycletime        |-> [Percentiles |-> cycle],
     Throughput_range |-> range,
     Montecarlo       |-> [Simulations     |-> simul,
                           Simulation_days |-> simul_days,
                           Percentiles     |-> monte]]

Idle ==
    /\ args = <<>>
    /\ ct = Unset
    /\ tp = Unset
    /\ samples = <<>>
    /\ distribution = <<>>
    /\ mc = Unset
    /\ response = NoResponse
    /\ last = "init"

---------------------------------------------------------------------------
(* The cycletime aggregator on its own *)

CycletimeTables == TablesOf({"JP", "KB"}, {31}, {0, 1, 5}, MaxRows) \cup {TestTable}

CyclePercentileLists ==
    {l \in SeqsUpTo({50, 75, 80, 90, 100}, MaxCyclePercentiles) :
        l # <<>> /\ Injective(l)}
    \cup {<<50, 75, 90>>}

InitCycletime ==
    /\ kanban_data \in CycletimeTables
    /\ cfg \in {ConfigOf(l, 1, 1, 1, <<50>>) : l \in CyclePercentileLists}
    /\ request = [Authorization |-> "Bearer secret"]
    /\ today = 32
    /\ Idle

CallCycletime ==
    /\ last = "init"
    /\ ct' = calc_cycletime_percentile(cfg, kanban_data)
    /\ last' = "calc_cycletime_percentile"
    /\ UNCHANGED <<kanban_data, cfg, request, today, args, tp, samples,
                   distribution, mc, response>>

SpecCycletime == InitCycletime /\ [][CallCycletime]_vars

---------------------------------------------------------------------------
(* The throughput builder on its own *)

ThroughputTables ==
    TablesOf({"JP", "KB"}, {31, 32, 33}, {3}, MaxRows) \cup {TestTable}

DateArguments == {NoDate} \cup {Strftime(d) : d \in 30..33}

InitThroughput ==
    /\ kanban_data \in ThroughputTables
    /\ cfg = ConfigOf(<<50>>, 1, 1, 1, <<50>>)
    /\ request = [Authorization |-> "Bearer secret"]
    /\ today = 32
    /\ Idle

CallThroughput ==
    /\ last = "init"
    /\ \E start_date, end_date \in DateArguments :
          /\ args' = <<start_date, end_date>>
          /\ tp' = calc_throughput(kanban_data, start_date, end_date)
    /\ last' = "calc_throughput"
    /\ UNCHANGED <<kanban_data, cfg, request, today, ct, samples,
                   distribution, mc, response>>

SpecThroughput == InitThroughput /\ [][CallThroughput]_vars

---------------------------------------------------------------------------
(* The forecaster on the series the throughput builder gives *)

SimulationTables == TablesOf({"JP"}, {31, 32}, {3}, 2)

\* the schema asks for at least one percentile
MontecarloPercentileLists ==
    SeqsUpTo({50, 75}, MaxMontecarloPercentiles) \ {<<>>}

\* seven runs: the fewest at which two probabilities as far from a percentile
\* as each other, 100/7 and 600/7 from 50, get different distances in doubles
SevenRuns == ConfigOf(<<50>>, 1, 7, 2, <<50>>)

InitSimulation ==
    /\ kanban_data \in SimulationTables
    /\ cfg \in {ConfigOf(<<50>>, 1, simul, simul_days, l) :
                    simul \in 1..MaxSimulations, simul_days \in {1, 2},
                    l \in MontecarloPercentileLists} \cup {SevenRuns}
    /\ request = [Authorization |-> "Bearer secret"]
    /\ today = 32
    /\ Idle

BuildThroughput ==
    /\ last = "init"
    /\ \E start_date \in {NoDate, Strftime(31)}, end_date \in {NoDate, Strftime(32)} :
          /\ args' = <<start_date, end_date>>
          /\ tp' = calc_throughput(kanban_data, start_date, end_date)
    /\ last' = "calc_throughput"
    /\ UNCHANGED <<kanban_data, cfg, request, today, ct, samples,
                   distribution, mc, response>>

CallSimulation ==
    /\ last = "calc_throughput"
    /\ \E totals \in Outcomes(cfg, tp) :
          /\ samples' = totals
          /\ distribution' = IF tp.kind = "None" THEN <<>> ELSE Distribution(totals)
          /\ mc' = run_simulation(cfg, tp, totals)
    /\ last' = "run_simulation"
    /\ UNCHANGED <<kanban_data, cfg, request, today, args, ct, tp, response>>

SpecSimulation == InitSimulation /\ [][BuildThroughput \/ CallSimulation]_vars

---------------------------------------------------------------------------
(* The request handler *)

MainTables == TablesOf({"JP", "KB"}, {31, 32, 33}, {4}, 2)

MainConfigs ==
    {ConfigOf(<<50>>, 0, 2, 1, <<50>>),
     ConfigOf(<<50, 90>>, 1, 2, 2, <<25, 75>>),
     ConfigOf(<<90>>, 1, 1, 1, <<75, 75>>),
     ConfigOf(<<50>>, 1, 2, 1, <<>>)}

InitMain ==
    /\ kanban_data \in MainTables
    /\ cfg \in MainConfigs
    /\ request \in {[Authorization |-> h] : h \in {"", "Bearer wrong", "Bearer secret"}}
    /\ today \in {32, 33}
    /\ Idle

Main ==
    /\ last = "init"
    /\ \E throughput \in {calc_throughput(kanban_data,
                                           Strftime(today - cfg.Throughput_range),
                                           Strftime(today))} :
       \E totals \in Outcomes(cfg, throughput) :
       \E run \in {MainRun(request, cfg, kanban_data, today, totals)} :
          /\ ct' = run.ct
          /\ tp' = run.tp
          /\ mc' = run.mc
          /\ response' = run.response
          /\ samples' = IF run.mc.kind = "unset" THEN <<>> ELSE totals
          /\ distribution' = IF run.mc.kind = "frame"
                             THEN Distribution(totals) ELSE <<>>
    /\ last' = "main"
    /\ UNCHANGED <<kanban_data, cfg, request, today, args>>

SpecMain == InitMain /\ [][Main]_vars

---------------------------------------------------------------------------
(* The whole program: any of the operations on any of the inputs *)

Init == InitCycletime \/ InitThroughput \/ InitSimulation \/ InitMain

Next == CallCycletime \/ CallThroughput \/ BuildThroughput \/ CallSimulation \/ Main

Spec == Init /\ [][Next]_vars

---------------------------------------------------------------------------
(* Properties of calc_cycletime_percentile *)

Members(project) == {i \in 1..Len(kanban_data.rows) : kanban_data.rows[i].project = project}

\* the k-th order statistic (k from 0) of a project's cycletimes: the value with
\* at most k values below it and more than k values at or below it
OrderStatistic(project, k) ==
    LET c(i) == kanban_data.rows[i].cycletime
    IN  CHOOSE v \in {c(i) : i \in Members(project)} :
            /\ Cardinality({i \in Members(project) : c(i) < v}) <= k
            /\ Cardinality({i \in Members(project) : c(i) <= v}) > k

\* 100 times the linearly interpolated percentile-th quantile of the project
Quantile100(project, percentile) ==
    LET pos == percentile * (Cardinality(Members(project)) - 1)
        lo  == pos \div 100
        hi  == (pos + 99) \div 100
    IN  100 * OrderStatistic(project, lo)
        + (pos - 100 * lo) * (OrderStatistic(project, hi) - OrderStatistic(project, lo))

\* C1: on a non-empty table, for every project and every requested percentile
\* the reported integer r is the ceiling of the interpolated quantile Q,
\* Q <= r < Q + 1; the test table with [50, 75, 90] reports 18, 26 and 40.
CeilingOfQuantile ==
    (last = "calc_cycletime_percentile" /\ kanban_data.rows # <<>>) =>
        /\ ct.kind = "frame"
        /\ \A i \in 1..Len(kanban_data.rows) :
              LET project == kanban_data.rows[i].project
              IN  /\ project \in Range(ct.index)
                  /\ \A j \in 1..Len(cfg.Cycletime.Percentiles) :
                        LET r == ct.data[IndexOf(ct.index, project)][j]
                            q == Quantile100(project, cfg.Cycletime.Percentiles[j])
                        IN  q <= 100 * r /\ 100 * r < q + 100
        /\ (kanban_data = TestTable /\ cfg.Cycletime.Percentiles = <<50, 75, 90>>)
              => ct.data = <<<<18, 26, 40>>>>

---------------------------------------------------------------------------
(* Properties of calc_throughput *)

BothDatesSet == args # <<>> /\ args[1] # NoDate /\ args[2] # NoDate

\* C2: with both dates set, a returned series has (end - start).days + 1 rows,
\* one for every calendar day from start_date to end_date, in ascending order.
ThroughputDensity ==
    (last = "calc_throughput" /\ BothDatesSet /\ tp.kind = "frame") =>
        \E first, final \in 30..33 :
            /\ args = <<Strftime(first), Strftime(final)>>
            /\ Len(tp.index) = final - first + 1
            /\ Len(tp.data) = final - first + 1
            /\ \A i \in 1..Len(tp.index) : tp.index[i] = first + i - 1

ThroughputDensityWitness ==
    /\ last = "calc_throughput"
    /\ BothDatesSet
    /\ tp.kind = "frame"
    /\ Len(tp.index) = 4
    /\ \E i \in 1..Len(tp.data) : tp.data[i] = <<0>>

\* C9: with both dates set, the count of each day of a returned series is the
\* number of records, of any project, completed on that day, and the counts
\* add up to the number of records with start_date <= date <= end_date.
ThroughputCounts ==
    (last = "calc_throughput" /\ BothDatesSet /\ tp.kind = "frame") =>
        \E first, final \in 30..33 :
            /\ args = <<Strftime(first), Strftime(final)>>
            /\ \A day \in first..final :
                  \E i \in 1..Len(tp.index) :
                      /\ tp.index[i] = day
                      /\ tp.data[i] = <<Cardinality({k \in 1..Len(kanban_data.rows) :
                                                        kanban_data.rows[k].date = day})>>
            /\ SumSeq([i \in 1..Len(tp.data) |-> tp.data[i][1]])
                  = Cardinality({k \in 1..Len(kanban_data.rows) :
                                    /\ first <= kanban_data.rows[k].date
                                    /\ kanban_data.rows[k].date <= final})

ThroughputCountsWitness ==
    /\ last = "calc_throughput"
    /\ args = <<Strftime(32), Strftime(33)>>
    /\ tp.kind = "frame"
    /\ tp.data = <<<<0>>, <<2>>>>
    /\ \E k \in 1..Len(kanban_data.rows) : kanban_data.rows[k].date = 31
    /\ {kanban_data.rows[k].project : k \in 1..Len(kanban_data.rows)} = {"JP", "KB"}

---------------------------------------------------------------------------
(* Properties of run_simulation *)

Simulated == last = "run_simulation" /\ tp.kind = "frame"

Requested == cfg.Montecarlo.Percentiles

\* the simulation runs whose total is at least v
RunsAtLeast(v) == Cardinality({k \in 1..Len(samples) : samples[k] >= v})

\* the forecast reported in the column of percentile p
Forecast(p) == mc.data[1][IndexOf(mc.columns, MontecarloLabel(p))]

\* C4: on a table with zero rows calc_throughput returns None whatever the
\* dates, and run_simulation given None returns None and draws no sample.
AbsentThroughputAbsentForecast ==
    /\ (last \in {"calc_throughput", "run_simulation"} /\ kanban_data.rows = <<>>)
          => tp = NoneValue
    /\ (last = "run_simulation" /\ tp = NoneValue)
          => (mc = NoneValue /\ samples = <<>> /\ distribution = <<>>)

AbsentThroughputAbsentForecastWitness ==
    /\ last = "run_simulation"
    /\ kanban_data.rows = <<>>
    /\ BothDatesSet
    /\ tp = NoneValue
    /\ mc = NoneValue

\* C6 as stated: one output column per entry of the requested list, in request
\* order, so as many columns as the list is long.
OneColumnPerEntry ==
    Simulated =>
        /\ mc.kind = "frame"
        /\ mc.columns = [i \in 1..Len(Requested) |-> MontecarloLabel(Requested[i])]

\* the positions of the list at which a percentile is requested for the first time
FirstRequests ==
    SelectSeq([i \in 1..Len(Requested) |-> i],
              LAMBDA i : \A j \in 1..(i - 1) : Requested[j] # Requested[i])

\* C6 as amended: one output column per distinct percentile of a non-empty
\* requested list, in the order of first request; a percentile requested twice
\* has one column.
OneColumnPerDistinctEntry ==
    Simulated =>
        /\ mc.kind = "frame"
        /\ mc.index = <<"issues">>
        /\ Len(mc.data) = 1
        /\ Len(mc.data[1]) = Len(mc.columns)
        /\ mc.columns = [k \in 1..Len(FirstRequests) |->
                            MontecarloLabel(Requested[FirstRequests[k]])]
        /\ Len(mc.columns) = Cardinality(Range(Requested))

OneColumnPerDistinctEntryWitness ==
    /\ Simulated
    /\ Requested = <<50, 50>>
    /\ mc.columns = <<"montecarlo 50%">>

\* C7: the probability of every distinct total v is 100 * (runs with a total
\* >= v) / simulations, as a double; it grows strictly as the total falls and
\* is 100, its maximum, at the least total.
CumulativeFromTheTop ==
    Simulated =>
        /\ {distribution[i].Items : i \in 1..Len(distribution)} = Range(samples)
        /\ \A i \in 1..Len(distribution) :
              LET row == distribution[i]
              IN  /\ row.Probability = Divide(100 * RunsAtLeast(row.Items),
                                              cfg.Montecarlo.Simulations)
                  /\ ~Less(FromInt(100), row.Probability)
                  /\ (\A v \in Range(samples) : row.Items <= v)
                        => row.Probability = FromInt(100)
        /\ \A i, j \in 1..Len(distribution) :
              distribution[i].Items > distribution[j].Items
                 => Less(distribution[i].Probability, distribution[j].Probability)

CumulativeFromTheTopWitness ==
    /\ Simulated
    /\ Len(distribution) = 3
    /\ distribution[1].Frequency = 1
    /\ distribution[2].Probability = Divide(200, 3)

\* how far the probability of total v is from percentile p, as the code
\* computes it: |100 * (runs >= v) / simulations - p| in doubles
Gap(v, p) == AbsMinus(Divide(100 * RunsAtLeast(v), Len(samples)), p)

Abs(x) == IF x < 0 THEN -x ELSE x

\* how far the probability of total v is from percentile p, times simulations
ExactGap(v, p) == Abs(100 * RunsAtLeast(v) - p * Len(samples))

\* C8 as stated: the forecast of each requested percentile p is a total that
\* occurred, none has a probability nearer to p, and of the totals whose
\* probabilities are equally near it is the largest.
NearestTotalExact ==
    Simulated =>
        \A j \in 1..Len(Requested) :
            LET p == Requested[j]
            IN  /\ Forecast(p) \in Range(samples)
                /\ \A v \in Range(samples) :
                      /\ ExactGap(Forecast(p), p) <= ExactGap(v, p)
                      /\ ExactGap(Forecast(p), p) = ExactGap(v, p) => v <= Forecast(p)

\* C8 as amended: the forecast of each requested percentile p is a total that
\* occurred, none has a computed distance |Probability - p| below its own, and
\* of the totals whose computed distances are equal it is the largest.
NearestTotal ==
    Simulated =>
        \A j \in 1..Len(Requested) :
            LET p == Requested[j]
            IN  /\ Forecast(p) \in Range(samples)
                /\ \A v \in Range(samples) :
                      /\ ~Less(Gap(v, p), Gap(Forecast(p), p))
                      /\ Gap(Forecast(p), p) = Gap(v, p) => v <= Forecast(p)

NearestTotalWitness ==
    /\ Simulated
    /\ \E j \in 1..Len(Requested) :
          \E v \in Range(samples) :
              /\ v < Forecast(Requested[j])
              /\ Gap(v, Requested[j]) = Gap(Forecast(Requested[j]), Requested[j])

\* C10: within one run, p1 <= p2 implies forecast(p1) >= forecast(p2).
ForecastMonotone ==
    Simulated =>
        \A i, j \in 1..Len(Requested) :
            Requested[i] <= Requested[j]
                => Forecast(Requested[i]) >= Forecast(Requested[j])

ForecastMonotoneWitness ==
    /\ Simulated
    /\ \E i, j \in 1..Len(Requested) :
          /\ Requested[i] < Requested[j]
          /\ Forecast(Requested[i]) > Forecast(Requested[j])
          /\ \E k \in {i, j} :
                \E v \in Range(samples) :
                    /\ v # Forecast(Requested[k])
                    /\ Gap(v, Requested[k]) = Gap(Forecast(Requested[k]), Requested[k])

---------------------------------------------------------------------------
(* Properties of main *)

Served == last = "main" /\ check_authorization(request) /\ test_config(cfg)

\* the records completed in the window [today - Throughput_range, today]
InWindow ==
    {k \in 1..Len(kanban_data.rows) :
        /\ today - cfg.Throughput_range <= kanban_data.rows[k].date
        /\ kanban_data.rows[k].date <= today}

\* C3: with no record in the throughput window (the table empty or not), an
\* authorized request with a valid config is answered, nothing is raised.
EmptyWindowIsAnswered ==
    (Served /\ InWindow = {}) => response.status = "returned"

\* C5: the forecast row is relabeled to the project of the first row and merged
\* with the cycletime result on the row label: a project has a row exactly when
\* it is a label of both sides, so the output is the one row of the first row's
\* project, with all its cycletime columns and all forecast columns.
MergeKeepsFirstProject ==
    (last = "main" /\ response.status = "returned") =>
        LET owner == kanban_data.rows[1].project
            body  == response.body
        IN  /\ mc.index = <<owner>>
            /\ \A project \in Range(ProjectOrder) :
                  project \in Range(body.index)
                     <=> (project \in Range(ct.index) /\ project \in Range(mc.index))
            /\ body.index = <<owner>>
            /\ body.columns = ct.columns \o mc.columns
            /\ body.data = <<ct.data[IndexOf(ct.index, owner)] \o mc.data[1]>>

MergeKeepsFirstProjectWitness ==
    /\ last = "main"
    /\ response.status = "returned"
    /\ ct.index = <<"JP", "KB">>
    /\ response.body.index = <<"KB">>
    /\ Len(response.body.columns) = 4

=============================================================================
